---- MODULE Spec2Model ----
(***************************************************************************)
(* PngMe chunk codec: ChunkType (src/src/chunk_type.rs) and Chunk          *)
(* (src/src/chunk.rs).                                                     *)
(*                                                                         *)
(* Representation.  A byte is a number in 0..255.  A u32 is a pair         *)
(* <<hi, lo>> of 16-bit limbs, value hi * 2^16 + lo, because the model     *)
(* checker's integers stop at 2^31 - 1 while the length bound of the       *)
(* decoder sits at 2^31.  A &str is a sequence of Unicode scalar values;   *)
(* its bytes are its UTF-8 encoding.  A Result is a record                 *)
(* [ok, panic, val, err].                                                  *)
(***************************************************************************)
EXTENDS Integers, Sequences, FiniteSets, TLC

(***************************************************************************)
(* Bounds of the explored inputs.                                          *)
(***************************************************************************)
MaxData == 2

MaxStrLen == 4

MaxExtra == 1

(***************************************************************************)
(* Results and errors.                                                     *)
(***************************************************************************)
NoValue == <<>>

NoError == [kind |-> "none", a |-> <<>>, b |-> <<>>]

Error(kind, a, b) == [kind |-> kind, a |-> a, b |-> b]

Ok(v) == [ok |-> TRUE, panic |-> FALSE, val |-> v, err |-> NoError]

Err(e) == [ok |-> FALSE, panic |-> FALSE, val |-> NoValue, err |-> e]

Panic(e) == [ok |-> FALSE, panic |-> TRUE, val |-> NoValue, err |-> e]

(***************************************************************************)
(* u32 arithmetic on 16-bit limbs.                                         *)
(***************************************************************************)
RECURSIVE XorBits(_, _, _)
XorBits(a, b, n) ==
    IF n = 0 THEN 0
    ELSE ((a + b) % 2) + (2 * XorBits(a \div 2, b \div 2, n - 1))

XorNibble == [a \in 0..15 |-> [b \in 0..15 |-> XorBits(a, b, 4)]]

Xor8(a, b) ==
    (16 * XorNibble[a \div 16][b \div 16]) + XorNibble[a % 16][b % 16]

Xor16(a, b) ==
    (256 * Xor8(a \div 256, b \div 256)) + Xor8(a % 256, b % 256)

u32_xor(a, b) == <<Xor16(a[1], b[1]), Xor16(a[2], b[2])>>

u32_shr(a, n) ==
    <<a[1] \div (2^n), ((a[1] % (2^n)) * (2^(16 - n))) + (a[2] \div (2^n))>>

u32_lt(a, b) == a[1] < b[1] \/ (a[1] = b[1] /\ a[2] < b[2])

\* 2u32.pow(31)
pow_2_31 == <<2^15, 0>>

\* usize as u32: truncation to 32 bits
as_u32(n) == <<(n \div 65536) % 65536, n % 65536>>

\* u32::from_be_bytes of a 4-byte array
from_be_bytes(b) == <<(b[1] * 256) + b[2], (b[3] * 256) + b[4]>>

\* u32::to_be_bytes
to_be_bytes(x) == <<x[1] \div 256, x[1] % 256, x[2] \div 256, x[2] % 256>>

(***************************************************************************)
(* CRC_ALGO: Crc::<u32>::new(&CRC_32_ISO_HDLC), table driven, reflected.   *)
(***************************************************************************)
CRC_32_ISO_HDLC ==
    [poly   |-> <<60856, 33568>>,     \* 0xEDB88320, 0x04C11DB7 reflected
     init   |-> <<65535, 65535>>,
     xorout |-> <<65535, 65535>>]

RECURSIVE crc_round(_, _)
crc_round(c, n) ==
    IF n = 0 THEN c
    ELSE crc_round(IF c[2] % 2 = 1
                   THEN u32_xor(u32_shr(c, 1), CRC_32_ISO_HDLC.poly)
                   ELSE u32_shr(c, 1), n - 1)

crc_table == [i \in 0..255 |-> crc_round(<<0, i>>, 8)]

RECURSIVE digest_update(_, _)
digest_update(crc, bytes) ==
    IF bytes = <<>> THEN crc
    ELSE digest_update(
            u32_xor(crc_table[Xor8(crc[2] % 256, Head(bytes))], u32_shr(crc, 8)),
            Tail(bytes))

digest_finalize(crc) == u32_xor(crc, CRC_32_ISO_HDLC.xorout)

\* digest(); update(chunk_type); update(data); finalize()
checksum(chunk_type, data) ==
    digest_finalize(
        digest_update(digest_update(CRC_32_ISO_HDLC.init, chunk_type), data))

(***************************************************************************)
(* Strings and UTF-8.                                                      *)
(***************************************************************************)
\* char::encode_utf8
encode_utf8(c) ==
    IF c < 128 THEN <<c>>
    ELSE IF c < 2048 THEN <<192 + (c \div 64), 128 + (c % 64)>>
    ELSE IF c < 65536
         THEN <<224 + (c \div 4096), 128 + ((c \div 64) % 64), 128 + (c % 64)>>
    ELSE <<240 + (c \div 262144), 128 + ((c \div 4096) % 64),
           128 + ((c \div 64) % 64), 128 + (c % 64)>>

\* str::as_bytes
RECURSIVE as_bytes_str(_)
as_bytes_str(s) ==
    IF s = <<>> THEN <<>> ELSE encode_utf8(Head(s)) \o as_bytes_str(Tail(s))

\* str::len: the length in bytes
str_len(s) == Len(as_bytes_str(s))

\* str::is_ascii
is_ascii(s) == \A i \in 1..Len(s) : s[i] < 128

is_ascii_uppercase(b) == b >= 65 /\ b <= 90

is_ascii_lowercase(b) == b >= 97 /\ b <= 122

is_ascii_alphabetic(c) == is_ascii_uppercase(c) \/ is_ascii_lowercase(c)

Cont(b) == b >= 128 /\ b <= 191

\* std::str::from_utf8(..).is_ok()
RECURSIVE from_utf8_ok(_)
from_utf8_ok(b) ==
    IF b = <<>> THEN TRUE
    ELSE LET h == b[1]
             n == Len(b)
         IN  IF h < 128 THEN from_utf8_ok(Tail(b))
             ELSE IF h >= 194 /\ h <= 223
                  THEN n >= 2 /\ Cont(b[2]) /\ from_utf8_ok(SubSeq(b, 3, n))
             ELSE IF h >= 224 /\ h <= 239
                  THEN /\ n >= 3
                       /\ Cont(b[2]) /\ Cont(b[3])
                       /\ (h = 224 => b[2] >= 160)
                       /\ (h = 237 => b[2] <= 159)
                       /\ from_utf8_ok(SubSeq(b, 4, n))
             ELSE IF h >= 240 /\ h <= 244
                  THEN /\ n >= 4
                       /\ Cont(b[2]) /\ Cont(b[3]) /\ Cont(b[4])
                       /\ (h = 240 => b[2] >= 144)
                       /\ (h = 244 => b[2] <= 143)
                       /\ from_utf8_ok(SubSeq(b, 5, n))
             ELSE FALSE

(***************************************************************************)
(* chunk_type.rs                                                           *)
(***************************************************************************)
\* impl TryFrom<[u8; 4]> for ChunkType: no validation
ChunkType_try_from(value) == Ok([data |-> value])

\* mutant: validation that stops at the first violated condition
from_str_errors_first(s) ==
    IF ~is_ascii(s) THEN <<Error("NonAscii", <<>>, <<>>)>>
    ELSE IF str_len(s) # 4 THEN <<Error("InvalidLength", str_len(s), <<>>)>>
    ELSE IF ~(\A i \in 1..Len(s) : is_ascii_alphabetic(s[i]))
         THEN <<Error("NonAlphabetic", <<>>, <<>>)>>
    ELSE <<>>

\* ChunkTypeError::InvalidLength(s.len()) is pushed when s.len() != 4
invalid_length(s) == str_len(s) # 4

\* the errors vector of from_str, in push order
from_str_errors(s) ==
    (IF ~is_ascii(s) THEN <<Error("NonAscii", <<>>, <<>>)>> ELSE <<>>)
    \o (IF invalid_length(s)
        THEN <<Error("InvalidLength", str_len(s), <<>>)>> ELSE <<>>)
    \o (IF ~(\A i \in 1..Len(s) : is_ascii_alphabetic(s[i]))
        THEN <<Error("NonAlphabetic", <<>>, <<>>)>> ELSE <<>>)

\* impl FromStr for ChunkType
from_str(s) ==
    LET errors == from_str_errors(s)
    IN  IF errors # <<>>
        THEN Err(Error("Invalid chunk type", errors, <<>>))
        ELSE IF Len(as_bytes_str(s)) = 4
             THEN Ok([data |-> as_bytes_str(s)])
             ELSE Err(Error("Failed to convert string to bytes", <<>>, <<>>))

\* ChunkType::bytes
bytes(self) == self.data

is_valid(self) == is_ascii_uppercase(self.data[3])

is_critical(self) == is_ascii_uppercase(self.data[1])

\* mutant: the public bit read from byte 0
is_public_byte0(self) == is_ascii_uppercase(self.data[1])

is_public(self) == is_ascii_uppercase(self.data[2])

is_reserved_bit_valid(self) == is_ascii_uppercase(self.data[3])

is_safe_to_copy(self) == is_ascii_lowercase(self.data[4])

\* impl Display for ChunkType: from_utf8(&self.data).unwrap()
ChunkType_fmt(self) ==
    IF from_utf8_ok(self.data)
    THEN Ok(self.data)
    ELSE Panic(Error("called Result::unwrap() on an Err value: Utf8Error",
                     <<>>, <<>>))

(***************************************************************************)
(* chunk.rs                                                                *)
(***************************************************************************)
\* mutant: the checksum taken over the data alone
new_crc_of_data(chunk_type, data) ==
    [length     |-> as_u32(Len(data)),
     chunk_type |-> chunk_type,
     chunk_data |-> data,
     crc        |-> checksum(<<>>, data)]

\* Chunk::new
new(chunk_type, data) ==
    [length     |-> as_u32(Len(data)),
     chunk_type |-> chunk_type,
     chunk_data |-> data,
     crc        |-> checksum(bytes(chunk_type), data)]

\* mutant: the checksum written little-endian
as_bytes_le_crc(self) ==
    to_be_bytes(self.length) \o bytes(self.chunk_type) \o self.chunk_data
        \o <<self.crc[2] % 256, self.crc[2] \div 256,
             self.crc[1] % 256, self.crc[1] \div 256>>

\* Chunk::as_bytes
as_bytes(self) ==
    to_be_bytes(self.length) \o bytes(self.chunk_type)
        \o self.chunk_data \o to_be_bytes(self.crc)

\* mutant: only the low 16 bits of the checksums compared
validate_crc_low_half(crc, data, chunk_type) ==
    LET calculated_crc == checksum(chunk_type, data)
    IN  IF crc[2] = calculated_crc[2]
        THEN Ok(<<>>)
        ELSE Err(Error("InvalidCrc", crc, calculated_crc))

\* Chunk::validate_crc
validate_crc(crc, data, chunk_type) ==
    LET calculated_crc == checksum(chunk_type, data)
    IN  IF crc = calculated_crc
        THEN Ok(<<>>)
        ELSE Err(Error("InvalidCrc", crc, calculated_crc))

\* value.get(0..4) ... u32::from_be_bytes
read_length(value) ==
    IF Len(value) >= 4
    THEN Ok(from_be_bytes(SubSeq(value, 1, 4)))
    ELSE Err(Error("Input slice is too short for chunk length", <<>>, <<>>))

\* 2u32.pow(31) < length
length_too_large(length) == u32_lt(pow_2_31, length)

\* value.get(4..8)
read_chunk_type(value) ==
    IF Len(value) >= 8
    THEN ChunkType_try_from(SubSeq(value, 5, 8))
    ELSE Err(Error("Input slice is too short, not of size 8 for chunk type",
                   <<>>, <<>>))

\* mutant: the data slice clamped to the end of the buffer
read_chunk_data_clamped(value, length) ==
    IF length[1] = 0 /\ 8 + length[2] <= Len(value)
    THEN Ok(SubSeq(value, 9, 8 + length[2]))
    ELSE IF Len(value) >= 8 THEN Ok(SubSeq(value, 9, Len(value)))
    ELSE Err(Error("IncorrectLength", length, <<>>))

\* value.get(8..8 + length as usize).  A length with a non-zero high limb is
\* at least 65536 and ends beyond every buffer explored here.
read_chunk_data(value, length) ==
    IF length[1] = 0 /\ 8 + length[2] <= Len(value)
    THEN Ok(SubSeq(value, 9, 8 + length[2]))
    ELSE Err(Error("IncorrectLength", length, <<>>))

\* mutant: the checksum read from the 4 bytes after the data, whatever follows
read_crc_lenient(value, length) ==
    LET rest == SubSeq(value, 9 + length[2], Len(value))
    IN  IF Len(rest) >= 4
        THEN Ok(from_be_bytes(SubSeq(rest, 1, 4)))
        ELSE Err(Error("Failed to convert into integer from 4 bytes for crc",
                       <<>>, <<>>))

\* u32::from_be_bytes(value[8 + length as usize..].try_into()); evaluated
\* only after read_chunk_data succeeded
read_crc(value, length) ==
    LET rest == SubSeq(value, 9 + length[2], Len(value))
    IN  IF Len(rest) = 4
        THEN Ok(from_be_bytes(rest))
        ELSE Err(Error("Failed to convert into integer from 4 bytes for crc",
                       <<>>, <<>>))

\* impl TryFrom<&[u8]> for Chunk
try_from(value) ==
    LET length_r == read_length(value)
    IN  IF ~length_r.ok THEN length_r
        ELSE
        LET length == length_r.val
        IN  IF length_too_large(length)
            THEN Err(Error("LengthTooLarge", length, <<>>))
            ELSE
            LET type_r == read_chunk_type(value)
            IN  IF ~type_r.ok THEN type_r
                ELSE
                LET chunk_type == type_r.val
                    data_r == read_chunk_data(value, length)
                IN  IF ~data_r.ok THEN data_r
                    ELSE
                    LET chunk_data == data_r.val
                        crc_r == read_crc(value, length)
                    IN  IF ~crc_r.ok THEN crc_r
                        ELSE
                        LET crc == crc_r.val
                            valid == validate_crc(crc, chunk_data,
                                                  bytes(chunk_type))
                        IN  IF ~valid.ok THEN valid
                            ELSE Ok([length     |-> length,
                                     chunk_type |-> chunk_type,
                                     chunk_data |-> chunk_data,
                                     crc        |-> crc])

\* Chunk::data_as_string
data_as_string(self) ==
    IF from_utf8_ok(self.chunk_data)
    THEN Ok(self.chunk_data)
    ELSE Err(Error("UTF-8 conversion error", <<>>, <<>>))

\* impl Display for Chunk
Chunk_fmt(self) ==
    LET type_text == ChunkType_fmt(self.chunk_type)
    IN  IF type_text.panic THEN type_text
        ELSE Ok(<<"Chunk length: ", self.length, "Chunk type: ",
                  type_text.val, "CRC: ", self.crc>>)

(***************************************************************************)
(* Inputs.                                                                 *)
(***************************************************************************)
\* 'R', 'u', '1', U+00E9 (2 bytes in UTF-8), U+20AC (3 bytes), U+1F600 (4 bytes)
Alphabet == {82, 117, 49, 233, 8364, 128512}

\* the strings of the unit tests: RuSt, Rust, ruSt, RUSt, RuST, Ru1t
TestStrings ==
    {<<82, 117, 83, 116>>, <<82, 117, 115, 116>>, <<114, 117, 83, 116>>,
     <<82, 85, 83, 116>>, <<82, 117, 83, 84>>, <<82, 117, 49, 116>>}

TypeStrings ==
    TestStrings \cup UNION {[1..k -> Alphabet] : k \in 0..MaxStrLen}

\* raw tags: RuSt, Rust, the bytes around the letter ranges, a non-UTF-8 tag
RawTypes ==
    {<<82, 117, 83, 116>>, <<82, 117, 115, 116>>, <<64, 91, 96, 123>>,
     <<90, 65, 122, 97>>, <<97, 122, 65, 90>>, <<255, 65, 65, 65>>}

InputTypes == {<<82, 117, 83, 116>>, <<90, 65, 122, 97>>, <<255, 65, 65, 65>>}

\* 'A', and the two bytes of U+00E9 in UTF-8
DataBytes == {65, 195, 169}

DataBufs == UNION {[1..k -> DataBytes] : k \in 0..MaxData}

\* declared lengths: around the payload sizes, and around 2^31
DeclaredLengths ==
    {as_u32(n) : n \in 0..(MaxData + 5)}
        \cup {<<32767, 65535>>, <<32768, 0>>, <<32768, 1>>, <<65535, 65535>>}

\* the checksum of tag and payload, or a wrong one (its lowest bit flipped)
StoredCrcs(t, d) == {checksum(t, d), u32_xor(checksum(t, d), <<0, 1>>)}

\* length, tag, payload, checksum field, extra bytes
RecordsOf(t, d) ==
    {to_be_bytes(L) \o t \o d \o to_be_bytes(c) \o e :
        L \in DeclaredLengths, c \in StoredCrcs(t, d),
        e \in UNION {[1..k -> {0}] : k \in 0..MaxExtra}}

Records == UNION {RecordsOf(t, d) : t \in InputTypes, d \in DataBufs}

\* every prefix of every record
InputBuffers == UNION {{SubSeq(r, 1, k) : k \in 0..Len(r)} : r \in Records}

\* the buffer with bit i (0 = least significant) of its last 4 bytes flipped
flip_crc_bit(value, i) ==
    LET at == Len(value) - (i \div 8)
    IN  [value EXCEPT ![at] = Xor8(value[at], 2^(i % 8))]

(***************************************************************************)
(* State.                                                                  *)
(***************************************************************************)
VARIABLES
    pc,       \* the last operation applied
    s,        \* the text given to from_str
    ct,       \* the Result of the chunk type constructor
    props,    \* the property bits read from ct
    data,     \* the buffer given to Chunk::new
    chunk,    \* the Chunk built by Chunk::new
    value,    \* the byte buffer: serialized, received or tampered with
    dec,      \* the Result of Chunk::try_from(value)
    bit,      \* the flipped bit of the checksum field, -1 when none
    out       \* the Result of the last inspection of the decoded chunk

vars == <<pc, s, ct, props, data, chunk, value, dec, bit, out>>

None == [ok |-> FALSE, panic |-> FALSE, val |-> NoValue, err |-> NoError]

Init ==
    /\ pc = "start"
    /\ s = <<>>
    /\ ct = None
    /\ props = <<>>
    /\ data = <<>>
    /\ chunk = None
    /\ value = <<>>
    /\ dec = None
    /\ bit = -1
    /\ out = None

\* ChunkType::from_str(text)
Call_from_str ==
    /\ pc = "start"
    /\ \E text \in TypeStrings :
        /\ s' = text
        /\ ct' = from_str(text)
    /\ pc' = "from_str"
    /\ UNCHANGED <<props, data, chunk, value, dec, bit, out>>

\* ChunkType::try_from(raw)
Call_ChunkType_try_from ==
    /\ pc = "start"
    /\ \E raw \in RawTypes : ct' = ChunkType_try_from(raw)
    /\ pc' = "raw"
    /\ UNCHANGED <<s, props, data, chunk, value, dec, bit, out>>

\* is_critical, is_public, is_reserved_bit_valid, is_safe_to_copy, is_valid
Call_predicates ==
    /\ pc \in {"from_str", "raw"}
    /\ ct.ok
    /\ props' = [critical           |-> is_critical(ct.val),
                 public             |-> is_public(ct.val),
                 reserved_bit_valid |-> is_reserved_bit_valid(ct.val),
                 safe_to_copy       |-> is_safe_to_copy(ct.val),
                 valid              |-> is_valid(ct.val)]
    /\ pc' = "predicates"
    /\ UNCHANGED <<s, ct, data, chunk, value, dec, bit, out>>

\* Chunk::new(ct, data)
Call_new ==
    /\ pc \in {"from_str", "raw"}
    /\ ct.ok
    /\ \E d \in DataBufs :
        /\ data' = d
        /\ chunk' = Ok(new(ct.val, d))
    /\ pc' = "new"
    /\ UNCHANGED <<s, ct, props, value, dec, bit, out>>

\* chunk.as_bytes() of the chunk built by Chunk::new
Call_as_bytes ==
    /\ pc = "new"
    /\ value' = as_bytes(chunk.val)
    /\ pc' = "as_bytes"
    /\ UNCHANGED <<s, ct, props, data, chunk, dec, bit, out>>

\* Chunk::try_from of the serialized chunk
Call_try_from ==
    /\ pc = "as_bytes"
    /\ dec' = try_from(value)
    /\ pc' = "try_from"
    /\ UNCHANGED <<s, ct, props, data, chunk, value, bit, out>>

\* Chunk::try_from of a received buffer
Call_try_from_input ==
    /\ pc = "start"
    /\ \E b \in InputBuffers :
        /\ value' = b
        /\ dec' = try_from(b)
    /\ pc' = "try_from"
    /\ UNCHANGED <<s, ct, props, data, chunk, bit, out>>

\* Chunk::try_from of a buffer that decoded, with one bit of its checksum
\* field flipped
Call_try_from_tampered ==
    /\ pc = "try_from"
    /\ dec.ok
    /\ \E i \in 0..31 :
        /\ bit' = i
        /\ value' = flip_crc_bit(value, i)
        /\ dec' = try_from(flip_crc_bit(value, i))
    /\ pc' = "tampered"
    /\ UNCHANGED <<s, ct, props, data, chunk, out>>

\* as_bytes() of the decoded chunk
Call_as_bytes_decoded ==
    /\ pc = "try_from"
    /\ dec.ok
    /\ out' = Ok(as_bytes(dec.val))
    /\ pc' = "reserialized"
    /\ UNCHANGED <<s, ct, props, data, chunk, value, dec, bit>>

\* format!("{}", chunk) of the decoded chunk
Call_fmt ==
    /\ pc = "try_from"
    /\ dec.ok
    /\ out' = Chunk_fmt(dec.val)
    /\ pc' = "fmt"
    /\ UNCHANGED <<s, ct, props, data, chunk, value, dec, bit>>

\* data_as_string() of the decoded chunk
Call_data_as_string ==
    /\ pc = "try_from"
    /\ dec.ok
    /\ out' = data_as_string(dec.val)
    /\ pc' = "data_as_string"
    /\ UNCHANGED <<s, ct, props, data, chunk, value, dec, bit>>

Next ==
    \/ Call_from_str
    \/ Call_ChunkType_try_from
    \/ Call_predicates
    \/ Call_new
    \/ Call_as_bytes
    \/ Call_try_from
    \/ Call_try_from_input
    \/ Call_try_from_tampered
    \/ Call_as_bytes_decoded
    \/ Call_fmt
    \/ Call_data_as_string

Spec == Init /\ [][Next]_vars

(***************************************************************************)
(* Properties.                                                             *)
(***************************************************************************)
RuSt == <<82, 117, 83, 116>>

Rust == <<82, 117, 115, 116>>

\* a decode has run on value
Decoded == pc \in {"try_from", "tampered"}

\* the first 4 bytes of value as a big-endian number, in 16-bit limbs
DeclaredLength == <<(value[1] * 256) + value[2], (value[3] * 256) + value[4]>>

\* L <= 2^31 - 1
WithinBound(L) == L[1] <= 32767

\* L > n, for a small n
Exceeds(L, n) == L[1] > 0 \/ L[2] > n

\* n as 4 big-endian bytes, for n < 2^16 and for a number in limbs
BigEndian(x) == <<x[1] \div 256, x[1] % 256, x[2] \div 256, x[2] % 256>>

CrcConversionError == "Failed to convert into integer from 4 bytes for crc"

\* C1: a chunk built by Chunk::new from a chunk type that from_str accepted
\* (or that came from raw bytes) and a data buffer, serialized by as_bytes
\* and decoded by try_from, decodes successfully to a chunk with the same
\* chunk type, the same data and length = the length of the data.
C1_RoundTrip ==
    (pc = "try_from" /\ chunk.ok) =>
        /\ dec.ok
        /\ dec.val.chunk_type = ct.val
        /\ dec.val.chunk_data = data
        /\ dec.val.length = <<0, Len(data)>>

C1_Witness ==
    /\ pc = "try_from"
    /\ chunk.ok
    /\ s = RuSt
    /\ Len(data) >= 2
    /\ dec.ok

\* C2: a buffer that decoded, with any one bit of its last 4 bytes flipped,
\* fails to decode with InvalidCrc, expected = the stored (tampered)
\* checksum, calculated = the checksum of the type bytes followed by the
\* data; no chunk is returned.
C2_TamperDetection ==
    pc = "tampered" =>
        /\ ~dec.ok
        /\ dec.val = NoValue
        /\ dec.err.kind = "InvalidCrc"
        /\ BigEndian(dec.err.a) = SubSeq(value, Len(value) - 3, Len(value))
        /\ dec.err.b = checksum(SubSeq(value, 5, 8),
                                SubSeq(value, 9, Len(value) - 4))

C2_Witness ==
    /\ pc = "tampered"
    /\ bit = 31
    /\ Len(value) > 12
    /\ dec.err.kind = "InvalidCrc"

\* C3: a buffer of at least 4 bytes whose declared length exceeds 2^31 - 1
\* fails to decode with LengthTooLarge(length).
C3_LengthBound ==
    (Decoded /\ Len(value) >= 4 /\ ~WithinBound(DeclaredLength)) =>
        /\ ~dec.ok
        /\ dec.err = Error("LengthTooLarge", DeclaredLength, <<>>)

\* C3, the part of it that holds: a declared length above 2^31 fails with
\* LengthTooLarge(length), and no decoded chunk has a length above 2^31.
C3_LengthBound_Above2Pow31 ==
    Decoded =>
        /\ (Len(value) >= 4 /\ u32_lt(pow_2_31, DeclaredLength)) =>
                /\ ~dec.ok
                /\ dec.err = Error("LengthTooLarge", DeclaredLength, <<>>)
        /\ dec.ok => ~u32_lt(pow_2_31, dec.val.length)

\* C4 as claimed: a buffer of 4 + 4 + p + 4 bytes whose declared length L,
\* at most 2^31 - 1, is greater than p fails with IncorrectLength(L).
C4_LengthEnforcement_Claimed ==
    (/\ Decoded
     /\ Len(value) >= 12
     /\ WithinBound(DeclaredLength)
     /\ Exceeds(DeclaredLength, Len(value) - 12)) =>
        /\ ~dec.ok
        /\ dec.err = Error("IncorrectLength", DeclaredLength, <<>>)

\* C4 as amended: a buffer of 4 + 4 + p + 4 bytes whose declared length L is
\* at most 2^31 - 1 fails with IncorrectLength(L) when L > p + 4, and fails
\* with the checksum conversion error when p < L <= p + 4.
C4_LengthEnforcement ==
    (/\ Decoded
     /\ Len(value) >= 12
     /\ WithinBound(DeclaredLength)
     /\ Exceeds(DeclaredLength, Len(value) - 12)) =>
        /\ ~dec.ok
        /\ dec.val = NoValue
        /\ IF Exceeds(DeclaredLength, Len(value) - 8)
           THEN dec.err = Error("IncorrectLength", DeclaredLength, <<>>)
           ELSE dec.err.kind = CrcConversionError

C4_Witness ==
    /\ pc = "try_from"
    /\ Len(value) >= 13
    /\ DeclaredLength = <<0, Len(value) - 7>>
    /\ dec.err = Error("IncorrectLength", DeclaredLength, <<>>)

\* C5: a buffer of at least 8 bytes with declared length L <= 2^31 - 1 and at
\* least 8 + L bytes, where the bytes after offset 8 + L are not exactly 4,
\* fails with the checksum conversion error (not InvalidCrc, no chunk); a
\* decode succeeds only on a buffer of exactly L + 12 bytes.
C5_StrictBoundary ==
    Decoded =>
        /\ (/\ Len(value) >= 8
            /\ WithinBound(DeclaredLength)
            /\ ~Exceeds(DeclaredLength, Len(value) - 8)
            /\ Len(value) - (8 + DeclaredLength[2]) # 4) =>
                /\ ~dec.ok
                /\ dec.val = NoValue
                /\ dec.err.kind = CrcConversionError
        /\ dec.ok =>
                /\ DeclaredLength[1] = 0
                /\ Len(value) = DeclaredLength[2] + 12

C5_Witness ==
    /\ pc = "try_from"
    /\ Len(value) >= 13
    /\ Len(value) = 8 + DeclaredLength[2] + 5
    /\ DeclaredLength[1] = 0
    /\ DeclaredLength[2] >= 1
    /\ dec.err.kind = CrcConversionError

\* the length of a character in UTF-8
Utf8Len(c) == IF c < 128 THEN 1 ELSE IF c < 2048 THEN 2 ELSE IF c < 65536 THEN 3 ELSE 4

RECURSIVE Utf8Size(_)
Utf8Size(str) == IF str = <<>> THEN 0 ELSE Utf8Len(Head(str)) + Utf8Size(Tail(str))

Letter(c) == c \in (65..90) \cup (97..122)

\* the error names a failed from_str reports
Reported == {ct.err.a[i].kind : i \in 1..Len(ct.err.a)}

\* the conditions s violates, condition (2) being a count of characters
ViolatedByChars ==
    (IF \E i \in 1..Len(s) : s[i] > 127 THEN {"NonAscii"} ELSE {})
    \cup (IF Len(s) # 4 THEN {"InvalidLength"} ELSE {})
    \cup (IF \E i \in 1..Len(s) : ~Letter(s[i]) THEN {"NonAlphabetic"} ELSE {})

\* the conditions s violates, condition (2) being a count of UTF-8 bytes
ViolatedByBytes ==
    (IF \E i \in 1..Len(s) : s[i] > 127 THEN {"NonAscii"} ELSE {})
    \cup (IF Utf8Size(s) # 4 THEN {"InvalidLength"} ELSE {})
    \cup (IF \E i \in 1..Len(s) : ~Letter(s[i]) THEN {"NonAlphabetic"} ELSE {})

\* C6 as claimed: from_str(s) fails iff s violates one of (1) all characters
\* ASCII, (2) exactly 4 characters, (3) all characters ASCII alphabetic; the
\* error names exactly the violated conditions; on success the 4 bytes are
\* the ASCII codes of the 4 characters.
C6_ValidationAggregation_Claimed ==
    pc = "from_str" =>
        /\ ~ct.ok <=> ViolatedByChars # {}
        /\ ~ct.ok => (ct.err.kind = "Invalid chunk type"
                      /\ Reported = ViolatedByChars)
        /\ ct.ok => ct.val.data = s

\* C6 as amended: the same with condition (2) read as "the UTF-8 encoding of
\* s has exactly 4 bytes".
C6_ValidationAggregation ==
    pc = "from_str" =>
        /\ ~ct.ok <=> ViolatedByBytes # {}
        /\ ~ct.ok => (ct.err.kind = "Invalid chunk type"
                      /\ Reported = ViolatedByBytes
                      /\ Len(ct.err.a) = Cardinality(ViolatedByBytes))
        /\ ct.ok => ct.val.data = s

C6_Witness ==
    /\ pc = "from_str"
    /\ s = <<233, 233>>
    /\ ~ct.ok
    /\ Reported = {"NonAscii", "NonAlphabetic"}

\* C7: on a chunk type from from_str or from raw bytes, is_critical is true
\* iff byte 0 is in 'A'..'Z', is_public iff byte 1 is, is_reserved_bit_valid
\* and is_valid iff byte 2 is, is_safe_to_copy iff byte 3 is in 'a'..'z'; the
\* chunk type still holds the bytes it was built from; RuSt gives
\* (true, false, true, true) and Rust gives reserved-bit-valid = false.
C7_PropertyBits ==
    pc = "predicates" =>
        /\ props.critical <=> ct.val.data[1] \in 65..90
        /\ props.public <=> ct.val.data[2] \in 65..90
        /\ props.reserved_bit_valid <=> ct.val.data[3] \in 65..90
        /\ props.valid <=> ct.val.data[3] \in 65..90
        /\ props.safe_to_copy <=> ct.val.data[4] \in 97..122
        /\ s # <<>> => ct.val.data = s
        /\ s = RuSt => (/\ props.critical
                        /\ ~props.public
                        /\ props.reserved_bit_valid
                        /\ props.safe_to_copy)
        /\ s = Rust => ~props.reserved_bit_valid

C7_Witness ==
    /\ pc = "predicates"
    /\ s = RuSt
    /\ props.critical
    /\ ~props.public
    /\ props.safe_to_copy

\* C8: for a buffer that decoded to a chunk, as_bytes of the chunk is the
\* buffer, byte for byte: length as 4 big-endian bytes, the 4 type bytes, the
\* data, crc as 4 big-endian bytes; its size is length + 12.
C8_SerializeInvertsDecode ==
    pc = "reserialized" =>
        /\ out.val = value
        /\ out.val = BigEndian(dec.val.length) \o dec.val.chunk_type.data
                        \o dec.val.chunk_data \o BigEndian(dec.val.crc)
        /\ dec.val.length[1] = 0
        /\ Len(out.val) = dec.val.length[2] + 12

C8_Witness ==
    /\ pc = "reserialized"
    /\ ~chunk.ok
    /\ Len(value) > 12
    /\ out.val = value

\* C9: a buffer of fewer than 4 bytes fails as too short for the length; a
\* buffer of 4 to 7 bytes fails with LengthTooLarge when its declared length
\* exceeds 2^31 - 1 and as too short for the type otherwise, never with
\* IncorrectLength; a failed decode returns no chunk.
C9_ShortBuffers ==
    pc = "try_from" =>
        /\ Len(value) < 4 =>
            (~dec.ok /\ dec.err.kind = "Input slice is too short for chunk length")
        /\ (Len(value) >= 4 /\ Len(value) <= 7) =>
            /\ ~dec.ok
            /\ dec.err.kind # "IncorrectLength"
            /\ IF ~WithinBound(DeclaredLength)
               THEN dec.err = Error("LengthTooLarge", DeclaredLength, <<>>)
               ELSE dec.err.kind =
                        "Input slice is too short, not of size 8 for chunk type"
        /\ ~dec.ok => dec.val = NoValue

\* C9, the part of it that holds: the same with the bound the code tests,
\* a declared length above 2^31.
C9_ShortBuffers_Above2Pow31 ==
    pc = "try_from" =>
        /\ Len(value) < 4 =>
            (~dec.ok /\ dec.err.kind = "Input slice is too short for chunk length")
        /\ (Len(value) >= 4 /\ Len(value) <= 7) =>
            /\ ~dec.ok
            /\ dec.err.kind # "IncorrectLength"
            /\ IF u32_lt(pow_2_31, DeclaredLength)
               THEN dec.err = Error("LengthTooLarge", DeclaredLength, <<>>)
               ELSE dec.err.kind =
                        "Input slice is too short, not of size 8 for chunk type"
        /\ ~dec.ok => dec.val = NoValue

\* C10, the part of it that holds: data_as_string on a decoded chunk returns
\* a string exactly when the data is the UTF-8 of one, and never aborts.
C10_DataAsStringTotal ==
    pc = "data_as_string" => (~out.panic /\ (out.ok => out.val = dec.val.chunk_data))

\* C10: on a decoded chunk, Display returns a string and data_as_string
\* returns a string or an error; neither aborts the program.
C10_DisplayTotal ==
    /\ pc = "fmt" => (out.ok /\ ~out.panic)
    /\ pc = "data_as_string" => ~out.panic

====
